---- MODULE Spec2Model ----
(***************************************************************************)
(* Model of twisted/scripts/trial.py: option handling (opt_random,         *)
(* opt_testmodule, parseArgs), suite construction (_getLoader, _getSuite), *)
(* the run loop (reallyRun, callUntilFailure) and run().                   *)
(*                                                                         *)
(* Text is modelled as a sequence of tokens.  One-character tokens are the *)
(* characters themselves ("-", "*", ":", ";", " ", "0", ...); a longer     *)
(* token such as "test-case-name" stands for that exact run of characters. *)
(***************************************************************************)
EXTENDS Integers, Sequences, FiniteSets, TLC

VARIABLES pc, argv, config, count, calls, result, results, returned,
          events, loader, randomer, suite, idx, builds, exitStatus,
          fs, call, stderr,
          extraArgs, testdir, prof, parsed, request, registry, served, reactor

vars == <<pc, argv, config, count, calls, result, results, returned,
          events, loader, randomer, suite, idx, builds, exitStatus,
          fs, call, stderr,
          extraArgs, testdir, prof, parsed, request, registry, served, reactor>>

\* the state of the option handlers that read files, and the state of a run
fileVars == <<fs, call, stderr>>

runVars == <<argv, count, calls, result, results, returned, events, loader,
             randomer, suite, idx, builds, exitStatus>>

\* the state of the functions that are modelled on their own
libVars == <<prof, parsed, request, registry, served, reactor>>

\* Python's None is the empty sequence, any other value x is <<x>>
None == <<>>

Some(x) == <<x>>

Val(o) == o[1]

(***************************************************************************)
(* Bounds                                                                  *)
(***************************************************************************)
MaxOptLen == 2
MaxArgs == 2
MaxPass == 3
MaxEntropy == 2
MaxItems == 2
MaxCalls == 2
MaxStmts == 3
MaxScript == 2
MaxStarts == 3
ClockSpan == 12

(***************************************************************************)
(* Generic sequence helpers                                                *)
(***************************************************************************)
SeqsUpTo(S, n) == UNION {[1..k -> S] : k \in 0..n}

Range(s) == {s[i] : i \in 1..Len(s)}

(***************************************************************************)
(* long(option): Python 2 integer parsing of a string.  Surrounding        *)
(* whitespace is ignored, one optional sign, then one or more digits;      *)
(* anything else raises ValueError.                                        *)
(***************************************************************************)
Digits == {"0", "1", "2", "3", "4", "5", "6", "7", "8", "9"}

DigitVal(d) ==
    CASE d = "0" -> 0 [] d = "1" -> 1 [] d = "2" -> 2 [] d = "3" -> 3
      [] d = "4" -> 4 [] d = "5" -> 5 [] d = "6" -> 6 [] d = "7" -> 7
      [] d = "8" -> 8 [] d = "9" -> 9

\* str.strip(): leading and trailing whitespace is removed
Whitespace == {" ", "\t", "\n"}

RECURSIVE LStrip(_)
LStrip(s) == IF s # <<>> /\ Head(s) \in Whitespace THEN LStrip(Tail(s)) ELSE s

RECURSIVE RStrip(_)
RStrip(s) ==
    IF s # <<>> /\ s[Len(s)] \in Whitespace
    THEN RStrip(SubSeq(s, 1, Len(s) - 1))
    ELSE s

Strip(s) == RStrip(LStrip(s))

RECURSIVE DecimalValue(_)
DecimalValue(ds) ==
    IF ds = <<>> THEN 0
    ELSE 10 * DecimalValue(SubSeq(ds, 1, Len(ds) - 1)) + DigitVal(ds[Len(ds)])

\* [err |-> TRUE] stands for ValueError
Long(option) ==
    LET s == Strip(option)
        signed == s # <<>> /\ Head(s) \in {"-", "+"}
        ds == IF signed THEN Tail(s) ELSE s
    IN  IF ds = <<>> \/ \E i \in 1..Len(ds) : ds[i] \notin Digits
        THEN [err |-> TRUE, val |-> 0]
        ELSE [err |-> FALSE,
              val |-> IF signed /\ Head(s) = "-" THEN 0 - DecimalValue(ds)
                      ELSE DecimalValue(ds)]

(***************************************************************************)
(* time.time(): the wall clock in milliseconds since the epoch, and        *)
(* long(time.time() * 100), which truncates to hundredths of a second.     *)
(***************************************************************************)
ClockMin == 1000

Clocks == ClockMin..(ClockMin + ClockSpan)

TimeSeed(ms) == ms \div 10

(***************************************************************************)
(* Options.opt_random(option).  Returns the new value of config['random']  *)
(* or a usage error.                                                       *)
(***************************************************************************)
\* opt_random without the range check of lines 275-277
opt_randomNoRangeCheck(option, now) ==
    LET v == Long(option)
    IN  IF v.err THEN [usageError |-> TRUE, random |-> None]
        ELSE IF v.val = 0
        THEN [usageError |-> FALSE, random |-> Some(TimeSeed(now))]
        ELSE [usageError |-> FALSE, random |-> Some(v.val)]

\* opt_random without the replacement of zero of lines 278-279
opt_randomZeroKept(option, now) ==
    LET v == Long(option)
    IN  IF v.err THEN [usageError |-> TRUE, random |-> None]
        ELSE IF v.val < 0 THEN [usageError |-> TRUE, random |-> Some(v.val)]
        ELSE [usageError |-> FALSE, random |-> Some(v.val)]

opt_random(option, now) ==
    LET v == Long(option)
    IN  IF v.err THEN [usageError |-> TRUE, random |-> None]
        ELSE IF v.val < 0 THEN [usageError |-> TRUE, random |-> Some(v.val)]
        ELSE IF v.val = 0
        THEN [usageError |-> FALSE, random |-> Some(TimeSeed(now))]
        ELSE [usageError |-> FALSE, random |-> Some(v.val)]

(***************************************************************************)
(* Paths.  A path is a token sequence with "/" as separator; the tokens    *)
(* ".py" and ".txt" are file extensions, "test_" is the test-file prefix.  *)
(***************************************************************************)
Cwd == <<"/", "cwd">>

abspath(path) ==
    IF path # <<>> /\ Head(path) = "/" THEN path ELSE Cwd \o <<"/">> \o path

\* the files of the working directory
TestFile == <<"test_", "a", ".py">>

PlainFile == <<"a", ".py">>

PrefixOnlyFile == <<"test_", "a", ".txt">>

MissingFile == <<"b", ".py">>

ExistingFiles == {TestFile, PlainFile, PrefixOnlyFile}

exists(path) == \E f \in ExistingFiles : path \in {f, abspath(f)}

isfile(path) == exists(path)

(***************************************************************************)
(* Options.parseArgs(args): every argument that names an existing path is  *)
(* made absolute, the arguments are appended to config['tests'], then the  *)
(* --extra arguments.                                                      *)
(***************************************************************************)
safeArgs(args) ==
    [i \in 1..Len(args) |-> IF exists(args[i]) THEN abspath(args[i]) ELSE args[i]]

parseArgs(tests, args, extra) ==
    IF extra = None THEN tests \o safeArgs(args)
    ELSE tests \o safeArgs(args) \o Val(extra)

(***************************************************************************)
(* Python string operations on token sequences; indices are 0-based as in  *)
(* the source.                                                             *)
(***************************************************************************)
MatchAt(line, pat, i) ==
    /\ i + Len(pat) <= Len(line)
    /\ \A k \in 1..Len(pat) : line[i + k] = pat[k]

\* str.find / str.rfind: first / last position of pat, -1 when absent
Find(line, pat) ==
    LET at == {i \in 0..Len(line) : MatchAt(line, pat, i)}
    IN  IF at = {} THEN 0 - 1 ELSE CHOOSE i \in at : \A j \in at : i <= j

RFind(line, pat) ==
    LET at == {i \in 0..Len(line) : MatchAt(line, pat, i)}
    IN  IF at = {} THEN 0 - 1 ELSE CHOOSE i \in at : \A j \in at : i >= j

\* line[start:end] for start, end >= 0
Slice(line, start, end) ==
    LET stop == IF end < Len(line) THEN end ELSE Len(line)
    IN  IF start >= stop THEN <<>> ELSE SubSeq(line, start + 1, stop)

\* str.split(sep) for a one-character separator
RECURSIVE Split(_, _)
Split(str, sep) ==
    LET at == {i \in 1..Len(str) : str[i] = sep}
    IN  IF at = {} THEN <<str>>
        ELSE LET i == CHOOSE i \in at : \A j \in at : i <= j
             IN  <<SubSeq(str, 1, i - 1)>>
                   \o Split(SubSeq(str, i + 1, Len(str)), sep)

(***************************************************************************)
(* _parseLocalVariables(line), lines 29-51.  The result is ValueError      *)
(* (err) or the dict of the declared variables; on a repeated name the     *)
(* last value stays.                                                       *)
(***************************************************************************)
paren == <<"-", "*", "-">>

LocalVarsOf(items) ==
    LET live == {i \in 1..Len(items) : Len(Strip(items[i])) # 0}
        name(i) == Strip(Split(items[i], ":")[1])
        value(i) == Strip(Split(items[i], ":")[2])
    IN  [k \in {name(i) : i \in live} |->
           value(CHOOSE i \in live :
                   /\ name(i) = k
                   /\ \A j \in live : name(j) = k => j <= i)]

\* a parser that skips the items it cannot split instead of raising
_parseLocalVariablesLenient(line) ==
    LET start == Find(line, paren) + Len(paren)
        end == RFind(line, paren)
    IN  IF start = 0 - 1 \/ end = 0 - 1
        THEN [err |-> TRUE, vars |-> <<>>]
        ELSE LET items == Split(Slice(line, start, end), ";")
             IN  [err |-> FALSE,
                  vars |-> LocalVarsOf(SelectSeq(items,
                             LAMBDA it : Len(Split(it, ":")) = 2))]

_parseLocalVariables(line) ==
    LET start == Find(line, paren) + Len(paren)
        end == RFind(line, paren)
    IN  IF start = 0 - 1 \/ end = 0 - 1
        THEN [err |-> TRUE, vars |-> <<>>]
        ELSE LET items == Split(Slice(line, start, end), ";")
             IN  IF \E i \in 1..Len(items) :
                       /\ Len(Strip(items[i])) # 0
                       /\ Len(Split(items[i], ":")) # 2
                 THEN [err |-> TRUE, vars |-> <<>>]
                 ELSE [err |-> FALSE, vars |-> LocalVarsOf(items)]

(***************************************************************************)
(* loadLocalVariables(filename), lines 54-68: the variables of the first   *)
(* of the two lines that parses, else the empty dict.                      *)
(***************************************************************************)
\* a loader that looks at the first line only
loadLocalVariablesFirstLine(lines) ==
    IF ~_parseLocalVariables(lines[1]).err
    THEN _parseLocalVariables(lines[1]).vars
    ELSE <<>>

loadLocalVariables(lines) ==
    IF ~_parseLocalVariables(lines[1]).err
    THEN _parseLocalVariables(lines[1]).vars
    ELSE IF ~_parseLocalVariables(lines[2]).err
    THEN _parseLocalVariables(lines[2]).vars
    ELSE <<>>

\* dict.get(key, None)
DictGet(dict, key) == IF key \in DOMAIN dict THEN Some(dict[key]) ELSE None

(***************************************************************************)
(* isTestFile(filename), lines 71-77                                       *)
(***************************************************************************)
basename(path) ==
    LET at == {i \in 1..Len(path) : path[i] = "/"}
    IN  IF at = {} THEN path
        ELSE SubSeq(path, (CHOOSE i \in at : \A j \in at : i >= j) + 1,
                    Len(path))

\* os.path.splitext(name)[1]: the extension, if the name has one
splitext1(name) ==
    IF Len(name) > 1 /\ name[Len(name)] \in {".py", ".txt"}
    THEN <<name[Len(name)]>>
    ELSE <<>>

isTestFile(filename) ==
    /\ basename(filename) # <<>>
    /\ Head(basename(filename)) = "test_"
    /\ splitext1(basename(filename)) = <<".py">>

(***************************************************************************)
(* Options.opt_testmodule(filename), lines 184-207.  lines are the first   *)
(* two lines of the file.  Returns the new test list and what was written  *)
(* to stderr.                                                              *)
(***************************************************************************)
opt_testmodule(tests, filename, lines) ==
    IF ~isfile(filename)
    THEN [tests |-> tests, stderr |-> <<filename>>]
    ELSE IF isTestFile(abspath(filename))
    THEN [tests |-> Append(tests, abspath(filename)), stderr |-> <<>>]
    ELSE LET moduleName == DictGet(loadLocalVariables(lines),
                                   <<"test-case-name">>)
         IN  IF moduleName # None /\ Val(moduleName) \notin Range(tests)
             THEN [tests |-> Append(tests, Val(moduleName)), stderr |-> <<>>]
             ELSE [tests |-> tests, stderr |-> <<>>]

(***************************************************************************)
(* random.Random: a deterministic generator.  Random() starts from system  *)
(* entropy, seed(x) replaces the state by a function of x, random() steps  *)
(* the state and returns a draw.                                           *)
(***************************************************************************)
RandomNew(entropy) == entropy % 16

SeedState(seed) == seed % 16

RandomSeed(state, seed) == SeedState(seed)

RandomNext(state) == (5 * state + 3) % 16

(***************************************************************************)
(* runner.SafeTestLoader (twisted.trial.runner).  loadByName resolves a    *)
(* name to its test units; a name that cannot be resolved yields no unit   *)
(* and one import error.  When a sorter is installed the loader calls it   *)
(* once per unit, in resolution order, and orders the units by the keys.   *)
(***************************************************************************)
PkgName == <<"pkg">>

BadName == <<"bad">>

Resolvable(name) == name \in {PkgName, abspath(TestFile)}

UnitsOf(name, recurse) ==
    IF name = PkgName
    THEN (IF recurse THEN <<"p1", "a1", "a2">> ELSE <<"p1">>)
    ELSE IF name = abspath(TestFile) THEN <<"a1", "a2">>
    ELSE <<>>

\* the draws of n successive random() calls from generator state g
RECURSIVE Draws(_, _)
Draws(g, n) ==
    IF n = 0 THEN <<>> ELSE <<RandomNext(g)>> \o Draws(RandomNext(g), n - 1)

RECURSIVE Advance(_, _)
Advance(g, n) == IF n = 0 THEN g ELSE Advance(RandomNext(g), n - 1)

\* stable sort of units by keys: insertion of (key, unit) pairs
RECURSIVE InsertByKey(_, _)
InsertByKey(sorted, kv) ==
    IF sorted = <<>> THEN <<kv>>
    ELSE IF kv[1] < Head(sorted)[1] THEN <<kv>> \o sorted
    ELSE <<Head(sorted)>> \o InsertByKey(Tail(sorted), kv)

RECURSIVE SortPairs(_)
SortPairs(kvs) ==
    IF kvs = <<>> THEN <<>>
    ELSE InsertByKey(SortPairs(SubSeq(kvs, 1, Len(kvs) - 1)), kvs[Len(kvs)])

SortedBy(units, keys) ==
    LET kvs == [i \in 1..Len(units) |-> <<keys[i], units[i]>>]
        out == SortPairs(kvs)
    IN  [i \in 1..Len(out) |-> out[i][2]]

\* the keys the sorter returns for the units of one loaded name
SorterKeys(ldr, g, units) ==
    IF ldr.sorter THEN Draws(Val(g), Len(units)) ELSE <<>>

loadByName(ldr, g, name, recurse) ==
    LET units == UnitsOf(name, recurse)
        keys == SorterKeys(ldr, g, units)
    IN  [units |-> IF ldr.sorter THEN SortedBy(units, keys) ELSE units,
         keys |-> keys,
         gen |-> IF ldr.sorter THEN Some(Advance(Val(g), Len(units))) ELSE g,
         importErrors |-> IF Resolvable(name) THEN <<>> ELSE <<name>>]

(***************************************************************************)
(* The command line of run(): --random, --until-failure, --no-recurse and  *)
(* the positional test arguments.                                          *)
(***************************************************************************)
OptChars == {"0", "1", "-", "x"}

RandomOptions ==
    {None} \cup {Some(o) : o \in SeqsUpTo(OptChars, MaxOptLen) \ {<<>>}}

ArgNames == {PkgName, BadName, TestFile}

\* command lines with --random, --until-failure, --no-recurse and tests
Argvs ==
    [random : RandomOptions, until_failure : BOOLEAN, no_recurse : BOOLEAN,
     args : SeqsUpTo(ArgNames, MaxArgs),
     profile : {FALSE}, nopm : {FALSE}, debug : {FALSE}, python24 : {FALSE}]

\* command lines with --until-failure, --profile, --nopm, --debug and at
\* most one test, on either kind of interpreter
FlagArgvs ==
    [random : {None}, until_failure : BOOLEAN, no_recurse : {FALSE},
     args : SeqsUpTo({PkgName, BadName}, 1),
     profile : BOOLEAN, nopm : BOOLEAN, debug : BOOLEAN, python24 : BOOLEAN]

\* no command line
NoArgv ==
    [random |-> None, until_failure |-> FALSE, no_recurse |-> FALSE,
     args |-> <<>>, profile |-> FALSE, nopm |-> FALSE, debug |-> FALSE,
     python24 |-> FALSE]

\* Options.__init__ and the defaults of optFlags and optParameters
InitialConfig ==
    [tests |-> <<>>, random |-> None, until_failure |-> FALSE,
     no_recurse |-> FALSE, profile |-> FALSE, nopm |-> FALSE, debug |-> FALSE]

(***************************************************************************)
(* The first two lines of a file, as written by its author: what stands    *)
(* around the items (nothing, one delimiter, two delimiters, two           *)
(* delimiters sharing a dash, or no line at all) and the items, which are  *)
(* joined by ";".  Text(l) is the line as readline() returns it.           *)
(***************************************************************************)
Items ==
    {[kind |-> "blank", name |-> <<>>, value |-> <<>>, text |-> <<" ">>],
     [kind |-> "pair", name |-> <<"test-case-name">>, value |-> <<"M">>,
      text |-> <<" ", "test-case-name", ":", " ", "M", " ">>],
     [kind |-> "pair", name |-> <<"test-case-name">>, value |-> <<"N">>,
      text |-> <<"test-case-name", ":", "N">>],
     [kind |-> "pair", name |-> <<"coding">>, value |-> <<"u">>,
      text |-> <<" ", "coding", ":", " ", "u">>],
     [kind |-> "bad", name |-> <<>>, value |-> <<>>,
      text |-> <<" ", "test-case-name", " ">>],
     [kind |-> "bad", name |-> <<>>, value |-> <<>>,
      text |-> <<"test-case-name", ":", "M", ":", "x">>]}

LongLines == [shape : {"both"}, items : SeqsUpTo(Items, MaxItems)]

ShortLines ==
    [shape : {"text", "open", "close", "both"}, items : SeqsUpTo(Items, 1)]
      \cup [shape : {"overlap", "eof"}, items : {<<>>}]

FileContents ==
    (LongLines \X ShortLines) \cup (ShortLines \X LongLines)
      \cup (ShortLines \X ShortLines)

RECURSIVE Join(_)
Join(items) ==
    IF items = <<>> THEN <<>>
    ELSE IF Len(items) = 1 THEN items[1].text
    ELSE items[1].text \o <<";">> \o Join(Tail(items))

Text(l) ==
    CASE l.shape = "eof" -> <<>>
      [] l.shape = "text" -> <<"#">> \o Join(l.items) \o <<"\n">>
      [] l.shape = "open" -> <<"#", " ">> \o paren \o Join(l.items) \o <<"\n">>
      [] l.shape = "close" -> <<"#">> \o Join(l.items) \o paren \o <<"\n">>
      [] l.shape = "both" ->
           <<"#", " ">> \o paren \o Join(l.items) \o paren \o <<"\n">>
      [] l.shape = "overlap" -> <<"#", "-", "*", "-", "*", "-", "\n">>

NoFile == <<[shape |-> "eof", items |-> <<>>], [shape |-> "eof", items |-> <<>>]>>

\* the content of PrefixOnlyFile: an interpreter line, then a declaration
PrefixOnlyContent ==
    <<[shape |-> "text", items |-> <<>>],
      [shape |-> "both",
       items |-> <<CHOOSE it \in Items : it.value = <<"N">> >>]>>

\* f.readline() twice, lines 60-62
readlines(filename, files) ==
    LET content == IF filename = PlainFile THEN files ELSE PrefixOnlyContent
    IN  <<Text(content[1]), Text(content[2])>>

FileNames == {TestFile, PlainFile, PrefixOnlyFile, MissingFile}

\* one observable event: a print, a reporter call, a call of f, a unit run
Ev(ev, n, s) == [ev |-> ev, n |-> n, s |-> s]

NoResult == [id |-> 0, ok |-> FALSE]

NoLoader == [sorter |-> FALSE, keys |-> <<>>, importErrors |-> <<>>]

\* the working directory before _setUpTestdir: no _trial_temp, nothing set up
NoTestdir ==
    [dir |-> "absent", cwd |-> "origdir", aside |-> 0, setups |-> 0,
     before |-> "absent", how |-> "none"]

(***************************************************************************)
(* _setUpTestdir(), lines 359-376.  dir is the state of _trial_temp:       *)
(* "absent", "old" (left by an earlier run) or "fresh" (just created,      *)
(* empty); aside counts the directories renamed to _trial_temp_oldN.  The  *)
(* arguments tell whether rmtree, rename and mkdir succeed.  how records   *)
(* the path taken, raised that OSError left the function.                  *)
(***************************************************************************)
\* _setUpTestdir without the os.chdir of line 376
_setUpTestdirNoChdir(td, rmtreeOk, renameOk, mkdirOk) ==
    LET exists_ == td.dir # "absent"
        cleared == ~exists_ \/ rmtreeOk \/ renameOk
        how == IF ~exists_ THEN "absent"
               ELSE IF rmtreeOk THEN "removed"
               ELSE IF renameOk THEN "renamed"
               ELSE "failed"
        renamed == exists_ /\ ~rmtreeOk /\ renameOk
    IN  IF ~cleared
        THEN [raised |-> TRUE,
              td |-> [td EXCEPT !.before = td.dir, !.how = how]]
        ELSE IF ~mkdirOk
        THEN [raised |-> TRUE,
              td |-> [td EXCEPT !.dir = "absent", !.before = td.dir,
                                !.aside = IF renamed THEN @ + 1 ELSE @,
                                !.how = "mkdirFailed"]]
        ELSE [raised |-> FALSE,
              td |-> [dir |-> "fresh", cwd |-> td.cwd,
                      aside |-> IF renamed THEN td.aside + 1 ELSE td.aside,
                      setups |-> td.setups + 1, before |-> td.dir,
                      how |-> how]]

_setUpTestdir(td, rmtreeOk, renameOk, mkdirOk) ==
    LET exists_ == td.dir # "absent"
        cleared == ~exists_ \/ rmtreeOk \/ renameOk
        how == IF ~exists_ THEN "absent"
               ELSE IF rmtreeOk THEN "removed"
               ELSE IF renameOk THEN "renamed"
               ELSE "failed"
        renamed == exists_ /\ ~rmtreeOk /\ renameOk
    IN  IF ~cleared
        THEN [raised |-> TRUE,
              td |-> [td EXCEPT !.before = td.dir, !.how = how]]
        ELSE IF ~mkdirOk
        THEN [raised |-> TRUE,
              td |-> [td EXCEPT !.dir = "absent", !.before = td.dir,
                                !.aside = IF renamed THEN @ + 1 ELSE @,
                                !.how = "mkdirFailed"]]
        ELSE [raised |-> FALSE,
              td |-> [dir |-> "fresh", cwd |-> "testdir",
                      aside |-> IF renamed THEN td.aside + 1 ELSE td.aside,
                      setups |-> td.setups + 1, before |-> td.dir,
                      how |-> how]]

\* postOptions without the test of lines 302-305
postOptionsNoCheck(cfg) == FALSE

\* Options.postOptions, lines 302-305: --nopm needs --debug
postOptionsUsageError(cfg) == cfg.nopm /\ ~cfg.debug

\* nothing has been called yet on the functions modelled on their own
LibIdle ==
    /\ prof = <<>>
    /\ parsed = <<>>
    /\ request = <<>>
    /\ registry = <<>>
    /\ served = <<>>
    /\ reactor = <<>>

\* Options.__init__: self['tests'] = [], no seed, flags off
Init ==
    /\ pc = "parseOptions"
    /\ argv \in Argvs
    /\ config = InitialConfig
    /\ count = 0
    /\ calls = 0
    /\ result = NoResult
    /\ results = <<>>
    /\ returned = NoResult
    /\ events = <<>>
    /\ loader = NoLoader
    /\ randomer = None
    /\ suite = <<>>
    /\ idx = 0
    /\ builds = <<>>
    /\ exitStatus = None
    /\ fs = NoFile
    /\ call = None
    /\ stderr = <<>>
    /\ extraArgs = None
    /\ testdir = NoTestdir
    /\ LibIdle

(***************************************************************************)
(* _doProfilingRun(func), lines 390-412.  What a call does is an outcome:  *)
(* it returns val, or it raises exc (SystemExit included).  python24 tells *)
(* which branch of line 391 the interpreter takes.                         *)
(***************************************************************************)
Returns(val) == [kind |-> "return", val |-> val, exc |-> "none"]

Raises(exc) == [kind |-> "raise", val |-> NoResult, exc |-> exc]

_doProfilingRun(python24, func) ==
    IF ~python24
    THEN \* lines 392-400: profile.Profile
         IF func.kind = "return"
         THEN [out |-> func, dumped |-> TRUE, printed |-> TRUE]
         ELSE IF func.exc = "SystemExit"
         THEN \* swallowed at lines 397-398, then 'return result' at line
              \* 400 reads a local that was never assigned
              [out |-> Raises("UnboundLocalError"), dumped |-> FALSE,
               printed |-> TRUE]
         ELSE [out |-> func, dumped |-> FALSE, printed |-> FALSE]
    ELSE \* lines 402-412: hotshot writes profile.data while func runs, the
         \* finally clause prints the statistics
         [out |-> func, dumped |-> TRUE, printed |-> TRUE]

(***************************************************************************)
(* run(), lines 445-450: config.parseOptions().  A usage error raised by   *)
(* an option handler becomes SystemExit with a message (exit status 1).    *)
(***************************************************************************)
ParseOptions ==
    /\ pc = "parseOptions"
    /\ \E now \in Clocks, rmtreeOk, renameOk, mkdirOk \in BOOLEAN :
         LET r == IF argv.random = None
                  THEN [usageError |-> FALSE, random |-> None]
                  ELSE opt_random(Val(argv.random), now)
             cfg == [tests |-> parseArgs(config.tests, argv.args, extraArgs),
                     random |-> r.random,
                     until_failure |-> argv.until_failure,
                     no_recurse |-> argv.no_recurse,
                     profile |-> argv.profile,
                     nopm |-> argv.nopm,
                     debug |-> argv.debug]
             \* postOptions, lines 293-295
             d == _setUpTestdir(testdir, rmtreeOk, renameOk, mkdirOk)
         IN  IF r.usageError
             THEN /\ config' = [config EXCEPT !.random = r.random]
                  /\ testdir' = testdir
                  /\ exitStatus' = Some(1)
                  /\ pc' = "exit"
             ELSE /\ config' = cfg
                  /\ testdir' = d.td
                  /\ IF d.raised \/ postOptionsUsageError(cfg)
                     THEN exitStatus' = Some(1) /\ pc' = "exit"
                     ELSE exitStatus' = exitStatus /\ pc' = "reallyRun"
    /\ UNCHANGED <<fileVars, extraArgs, libVars>>
    /\ UNCHANGED <<argv, count, calls, result, results, returned, events,
                   loader, randomer, suite, idx, builds>>

(***************************************************************************)
(* reallyRun, lines 426-439: picks callUntilFailure(do_a_run) or a single  *)
(* do_a_run().                                                             *)
(***************************************************************************)
ReallyRun ==
    /\ pc = "reallyRun"
    /\ pc' = IF config.until_failure THEN "callUntilFailure" ELSE "do_a_run"
    /\ UNCHANGED <<fileVars, extraArgs, testdir, libVars>>
    /\ UNCHANGED <<argv, config, count, calls, result, results, returned,
                   events, loader, randomer, suite, idx, builds, exitStatus>>

(***************************************************************************)
(* callUntilFailure, lines 416-417: count = 1; print "Test Pass 1"         *)
(***************************************************************************)
CufStart ==
    /\ pc = "callUntilFailure"
    /\ count' = 1
    /\ events' = Append(events, Ev("print", 1, <<>>))
    /\ pc' = "do_a_run"
    /\ UNCHANGED <<fileVars, extraArgs, testdir, libVars>>
    /\ UNCHANGED <<argv, config, calls, result, results, returned, loader,
                   randomer, suite, idx, builds, exitStatus>>

(***************************************************************************)
(* _getLoader, lines 379-387                                               *)
(***************************************************************************)
Truthy(x) == x # None /\ Val(x) # 0

\* _getLoader without randomer.seed(config['random']) of line 383
_getLoaderUnseeded(cfg, entropy) ==
    IF Truthy(cfg.random)
    THEN [loader |-> [sorter |-> TRUE, keys |-> <<>>, importErrors |-> <<>>],
          randomer |-> Some(RandomNew(entropy)),
          written |-> <<Ev("write", Val(cfg.random), <<>>)>>]
    ELSE [loader |-> NoLoader, randomer |-> None, written |-> <<>>]

\* _getLoader without the test of config['random'] of line 381
_getLoaderAlwaysRandom(cfg, entropy) ==
    [loader |-> [sorter |-> TRUE, keys |-> <<>>, importErrors |-> <<>>],
     randomer |-> Some(RandomNew(entropy)),
     written |-> <<>>]

_getLoader(cfg, entropy) ==
    IF Truthy(cfg.random)
    THEN [loader |-> [sorter |-> TRUE, keys |-> <<>>, importErrors |-> <<>>],
          randomer |-> Some(RandomSeed(RandomNew(entropy), Val(cfg.random))),
          written |-> <<Ev("write", Val(cfg.random), <<>>)>>]
    ELSE [loader |-> NoLoader, randomer |-> None, written |-> <<>>]

\* where _getSuite goes after the test at position i - 1
AfterLoad(i) ==
    IF i <= Len(config.tests) THEN "loadTests" ELSE "reportImportErrors"

(***************************************************************************)
(* Invocation of f = do_a_run (lines 418, 422, 439) up to the start of the *)
(* loop of _getSuite (lines 346-348).                                      *)
(***************************************************************************)
\* do_a_run with the generator kept from the previous pass
DoARunSharedGenerator ==
    /\ pc = "do_a_run"
    /\ calls' = calls + 1
    /\ \E entropy \in 0..MaxEntropy :
         LET g == _getLoader(config, entropy)
         IN  /\ loader' = g.loader
             /\ randomer' = IF randomer = None THEN g.randomer ELSE randomer
             /\ events' = Append(events, Ev("f", calls + 1, <<>>)) \o g.written
    /\ suite' = <<>>
    /\ idx' = 1
    /\ pc' = AfterLoad(1)
    /\ UNCHANGED <<fileVars, extraArgs, testdir, libVars>>
    /\ UNCHANGED <<argv, config, count, result, results, returned, builds,
                   exitStatus>>

DoARun ==
    /\ pc = "do_a_run"
    /\ calls' = calls + 1
    /\ \E entropy \in 0..MaxEntropy :
         LET g == _getLoader(config, entropy)
         IN  /\ loader' = g.loader
             /\ randomer' = g.randomer
             /\ events' = Append(events, Ev("f", calls + 1, <<>>)) \o g.written
    /\ suite' = <<>>
    /\ idx' = 1
    /\ pc' = AfterLoad(1)
    /\ UNCHANGED <<fileVars, extraArgs, testdir, libVars>>
    /\ UNCHANGED <<argv, config, count, result, results, returned, builds,
                   exitStatus>>

(***************************************************************************)
(* _getSuite, lines 349-353: one iteration of the loop over config['tests']*)
(***************************************************************************)
LoadTest ==
    /\ pc = "loadTests"
    /\ LET l == loadByName(loader, randomer, config.tests[idx],
                           ~config.no_recurse)
       IN  /\ suite' = suite \o l.units
           /\ loader' = [loader EXCEPT !.keys = @ \o l.keys,
                                       !.importErrors = @ \o l.importErrors]
           /\ randomer' = l.gen
    /\ idx' = idx + 1
    /\ pc' = AfterLoad(idx + 1)
    /\ UNCHANGED <<fileVars, extraArgs, testdir, libVars>>
    /\ UNCHANGED <<argv, config, count, calls, result, results, returned,
                   events, builds, exitStatus>>

\* the loop of lines 354-355 stopping one error early
importErrorEventsDropLast(errors) ==
    [i \in 1..(Len(errors) - 1) |-> Ev("reportImportError", i, errors[i])]

importErrorEvents(errors) ==
    [i \in 1..Len(errors) |-> Ev("reportImportError", i, errors[i])]

(***************************************************************************)
(* _getSuite, lines 354-356: every import error of the loader is reported, *)
(* then the suite is returned to do_a_run.                                 *)
(***************************************************************************)
ReportImportErrors ==
    /\ pc = "reportImportErrors"
    /\ events' = events \o importErrorEvents(loader.importErrors)
    /\ builds' = Append(builds, [tests |-> config.tests,
                                 recurse |-> ~config.no_recurse,
                                 seed |-> config.random,
                                 sorter |-> loader.sorter,
                                 keys |-> loader.keys,
                                 suite |-> suite])
    /\ pc' = "runnerRun"
    /\ UNCHANGED <<fileVars, extraArgs, testdir, libVars>>
    /\ UNCHANGED <<argv, config, count, calls, result, results, returned,
                   loader, randomer, suite, idx, exitStatus>>

\* the end of do_a_run: its result goes back to callUntilFailure (line 418,
\* 422) or, through reallyRun (line 439), to run()
PassDone(res) ==
    /\ results' = Append(results, res)
    /\ IF config.until_failure
       THEN pc' = "wasSuccessful" /\ returned' = returned
       ELSE pc' = "return" /\ returned' = res

(***************************************************************************)
(* do_a_run, line 431: my_runner.run(suite) starts (TrialRunner.run).  The *)
(* result of a pass is successful iff no import error was reported and     *)
(* every unit passed.                                                      *)
(***************************************************************************)
RunnerRun ==
    /\ pc = "runnerRun"
    /\ events' = Append(events, Ev("run", calls, <<>>))
    /\ idx' = 1
    /\ result' = [id |-> calls, ok |-> loader.importErrors = <<>>]
    /\ IF suite = <<>>
       THEN PassDone(result')
       ELSE pc' = "runUnit" /\ UNCHANGED <<results, returned>>
    /\ UNCHANGED <<fileVars, extraArgs, testdir, libVars>>
    /\ UNCHANGED <<argv, config, count, calls, loader, randomer, suite,
                   builds, exitStatus>>

(***************************************************************************)
(* TrialRunner.run: the units of the suite run one after the other; a unit *)
(* passes or fails, a failure does not stop the pass.                      *)
(***************************************************************************)
RunUnit ==
    /\ pc = "runUnit"
    /\ \E ok \in BOOLEAN :
         /\ events' = Append(events, Ev(IF ok THEN "unitOk" ELSE "unitFailed",
                                        idx, <<suite[idx]>>))
         /\ result' = [result EXCEPT !.ok = @ /\ ok]
    /\ idx' = idx + 1
    /\ IF idx = Len(suite)
       THEN PassDone(result')
       ELSE pc' = "runUnit" /\ UNCHANGED <<results, returned>>
    /\ UNCHANGED <<fileVars, extraArgs, testdir, libVars>>
    /\ UNCHANGED <<argv, config, count, calls, loader, randomer, suite,
                   builds, exitStatus>>

\* result.wasSuccessful()
wasSuccessful(res) == res.ok

(***************************************************************************)
(* callUntilFailure, lines 419-423: while result.wasSuccessful(): count    *)
(* += 1; print; call f again.  Otherwise return result.                    *)
(***************************************************************************)
\* callUntilFailure giving up after two passes
CufCheckCapped ==
    /\ pc = "wasSuccessful"
    /\ IF wasSuccessful(result) /\ count < 2
       THEN /\ count' = count + 1
            /\ events' = Append(events, Ev("print", count + 1, <<>>))
            /\ pc' = "do_a_run"
            /\ returned' = returned
       ELSE /\ returned' = result
            /\ pc' = "return"
            /\ UNCHANGED <<count, events>>
    /\ UNCHANGED <<fileVars, extraArgs, testdir, libVars>>
    /\ UNCHANGED <<argv, config, calls, result, results, loader, randomer,
                   suite, idx, builds, exitStatus>>

\* callUntilFailure printing the counter before incrementing it
CufCheckPrintsOldCount ==
    /\ pc = "wasSuccessful"
    /\ IF wasSuccessful(result)
       THEN /\ count < MaxPass
            /\ count' = count + 1
            /\ events' = Append(events, Ev("print", count, <<>>))
            /\ pc' = "do_a_run"
            /\ returned' = returned
       ELSE /\ returned' = result
            /\ pc' = "return"
            /\ UNCHANGED <<count, events>>
    /\ UNCHANGED <<fileVars, extraArgs, testdir, libVars>>
    /\ UNCHANGED <<argv, config, calls, result, results, loader, randomer,
                   suite, idx, builds, exitStatus>>

CufCheck ==
    /\ pc = "wasSuccessful"
    /\ IF wasSuccessful(result)
       THEN /\ count < MaxPass
            /\ count' = count + 1
            /\ events' = Append(events, Ev("print", count + 1, <<>>))
            /\ pc' = "do_a_run"
            /\ returned' = returned
       ELSE /\ returned' = result
            /\ pc' = "return"
            /\ UNCHANGED <<count, events>>
    /\ UNCHANGED <<fileVars, extraArgs, testdir, libVars>>
    /\ UNCHANGED <<argv, config, calls, result, results, loader, randomer,
                   suite, idx, builds, exitStatus>>

(***************************************************************************)
(* run(), lines 451-457: sys.exit(not test_result.wasSuccessful()).  With  *)
(* --profile the result of reallyRun has come through _doProfilingRun      *)
(* (lines 432-439).                                                        *)
(***************************************************************************)
\* run() with sys.exit(test_result.wasSuccessful())
ExitInverted ==
    /\ pc = "return"
    /\ LET o == IF config.profile
                THEN _doProfilingRun(argv.python24, Returns(returned))
                ELSE [out |-> Returns(returned), dumped |-> FALSE,
                      printed |-> FALSE]
       IN  /\ o.out.kind = "return"
           /\ exitStatus' = Some(IF wasSuccessful(o.out.val) THEN 1 ELSE 0)
           /\ events' = IF o.printed
                        THEN Append(events, Ev("print_stats", calls, <<>>))
                        ELSE events
    /\ pc' = "exit"
    /\ UNCHANGED <<fileVars, extraArgs, testdir, libVars>>
    /\ UNCHANGED <<argv, config, count, calls, result, results, returned,
                   loader, randomer, suite, idx, builds>>

Exit ==
    /\ pc = "return"
    /\ LET o == IF config.profile
                THEN _doProfilingRun(argv.python24, Returns(returned))
                ELSE [out |-> Returns(returned), dumped |-> FALSE,
                      printed |-> FALSE]
       IN  /\ o.out.kind = "return"
           /\ exitStatus' = Some(IF wasSuccessful(o.out.val) THEN 0 ELSE 1)
           /\ events' = IF o.printed
                        THEN Append(events, Ev("print_stats", calls, <<>>))
                        ELSE events
    /\ pc' = "exit"
    /\ UNCHANGED <<fileVars, extraArgs, testdir, libVars>>
    /\ UNCHANGED <<argv, config, count, calls, result, results, returned,
                   loader, randomer, suite, idx, builds>>

Next ==
    \/ ParseOptions
    \/ ReallyRun
    \/ CufStart
    \/ DoARun
    \/ LoadTest
    \/ ReportImportErrors
    \/ RunnerRun
    \/ RunUnit
    \/ CufCheck
    \/ Exit

Spec == Init /\ [][Next]_vars

\* run() for command lines with flags, started in a directory that may
\* still hold the _trial_temp of an earlier run
InitMain ==
    /\ pc = "parseOptions"
    /\ argv \in FlagArgvs
    /\ config = InitialConfig
    /\ count = 0
    /\ calls = 0
    /\ result = NoResult
    /\ results = <<>>
    /\ returned = NoResult
    /\ events = <<>>
    /\ loader = NoLoader
    /\ randomer = None
    /\ suite = <<>>
    /\ idx = 0
    /\ builds = <<>>
    /\ exitStatus = None
    /\ fs = NoFile
    /\ call = None
    /\ stderr = <<>>
    /\ extraArgs = None
    /\ testdir \in {NoTestdir, [NoTestdir EXCEPT !.dir = "old"]}
    /\ LibIdle

SpecMain == InitMain /\ [][Next]_vars

TypeOK ==
    /\ pc \in {"parseOptions", "reallyRun", "callUntilFailure", "do_a_run",
               "loadTests", "reportImportErrors", "runnerRun", "runUnit",
               "wasSuccessful", "return", "exit"}
    /\ calls \in 0..MaxPass
    /\ count \in 0..MaxPass

(***************************************************************************)
(* Option parsing on its own: the -m/--testmodule options of a command     *)
(* line, handled one after the other by opt_testmodule.                    *)
(***************************************************************************)
InitOptions ==
    /\ pc = "options"
    /\ fs \in FileContents
    /\ call = None
    /\ stderr = <<>>
    /\ config = InitialConfig
    /\ argv = NoArgv
    /\ count = 0
    /\ calls = 0
    /\ result = NoResult
    /\ results = <<>>
    /\ returned = NoResult
    /\ events = <<>>
    /\ loader = NoLoader
    /\ randomer = None
    /\ suite = <<>>
    /\ idx = 0
    /\ builds = <<>>
    /\ exitStatus = None
    /\ extraArgs = None
    /\ testdir = NoTestdir
    /\ LibIdle

OptTestmodule ==
    /\ pc = "options"
    /\ count < MaxCalls
    /\ \E filename \in FileNames :
         LET r == opt_testmodule(config.tests, filename,
                                 readlines(filename, fs))
         IN  /\ config' = [config EXCEPT !.tests = r.tests]
             /\ stderr' = stderr \o r.stderr
             /\ call' = Some(filename)
    /\ count' = count + 1
    /\ UNCHANGED <<pc, fs, argv, calls, result, results, returned, events,
                   loader, randomer, suite, idx, builds, exitStatus>>
    /\ UNCHANGED <<extraArgs, testdir, libVars>>

NextOptions == OptTestmodule

SpecOptions == InitOptions /\ [][NextOptions]_vars

(***************************************************************************)
(* The test list of a command line: --testmodule and --extra options in    *)
(* any order, then parseArgs with the positional arguments.                *)
(***************************************************************************)
\* a file with an interpreter line and a declaration of test-case-name
DeclaringContent(m) ==
    <<[shape |-> "text", items |-> <<>>],
      [shape |-> "both",
       items |-> <<CHOOSE it \in Items : it.value = m /\ it.kind = "pair">>]>>

InitTests ==
    /\ pc = "options"
    /\ fs \in {DeclaringContent(<<"M">>), DeclaringContent(<<"N">>)}
    /\ call = None
    /\ stderr = <<>>
    /\ config = InitialConfig
    /\ argv = NoArgv
    /\ count = 0
    /\ calls = 0
    /\ result = NoResult
    /\ results = <<>>
    /\ returned = NoResult
    /\ events = <<>>
    /\ loader = NoLoader
    /\ randomer = None
    /\ suite = <<>>
    /\ idx = 0
    /\ builds = <<>>
    /\ exitStatus = None
    /\ extraArgs = None
    /\ testdir = NoTestdir
    /\ LibIdle

\* Options.opt_extra(arg), lines 250-257
opt_extra(extra, arg) ==
    IF extra = None THEN Some(<<arg>>) ELSE Some(Append(Val(extra), arg))

OptExtra ==
    /\ pc = "options"
    /\ count < MaxCalls
    /\ \E arg \in ArgNames : extraArgs' = opt_extra(extraArgs, arg)
    /\ count' = count + 1
    /\ UNCHANGED <<pc, config, fileVars, argv, calls, result, results,
                   returned, events, loader, randomer, suite, idx, builds,
                   exitStatus, testdir, libVars>>

\* usage.Options.parseOptions calls parseArgs once, after the options
ParseArgsCall ==
    /\ pc = "options"
    /\ \E args \in SeqsUpTo(ArgNames, MaxArgs) :
         /\ argv' = [argv EXCEPT !.args = args]
         /\ config' = [config EXCEPT
                         !.tests = parseArgs(config.tests, args, extraArgs)]
    /\ pc' = "parsed"
    /\ UNCHANGED <<fileVars, extraArgs, count, calls, result, results,
                   returned, events, loader, randomer, suite, idx, builds,
                   exitStatus, testdir, libVars>>

NextTests ==
    \/ OptTestmodule
    \/ OptExtra
    \/ ParseArgsCall

SpecTests == InitTests /\ [][NextTests]_vars

\* what a profiled callable may do
FuncOutcomes ==
    {Returns([id |-> i, ok |-> ok]) : i \in 1..MaxPass, ok \in BOOLEAN}
      \cup {Raises(e) : e \in {"Exception", "KeyboardInterrupt", "SystemExit"}}

TrialIdle ==
    /\ pc = "idle"
    /\ fs = NoFile
    /\ call = None
    /\ stderr = <<>>
    /\ config = InitialConfig
    /\ argv = NoArgv
    /\ count = 0
    /\ calls = 0
    /\ result = NoResult
    /\ results = <<>>
    /\ returned = NoResult
    /\ events = <<>>
    /\ loader = NoLoader
    /\ randomer = None
    /\ suite = <<>>
    /\ idx = 0
    /\ builds = <<>>
    /\ exitStatus = None
    /\ extraArgs = None
    /\ testdir = NoTestdir

trialVars == <<pc, fs, call, stderr, config, argv, count, calls, result,
               results, returned, events, loader, randomer, suite, idx,
               builds, exitStatus, extraArgs, testdir>>

InitProfile ==
    /\ TrialIdle
    /\ prof \in [python24 : BOOLEAN, log : {<<>>}]
    /\ parsed = <<>>
    /\ request = <<>>
    /\ registry = <<>>
    /\ served = <<>>
    /\ reactor = <<>>

\* one call of _doProfilingRun(func); the log keeps what func did and what
\* the caller got
DoProfilingRun ==
    /\ Len(prof.log) < MaxCalls
    /\ \E func \in FuncOutcomes :
         LET r == _doProfilingRun(prof.python24, func)
         IN  prof' = [prof EXCEPT !.log =
                        Append(@, [func |-> func, out |-> r.out,
                                   dumped |-> r.dumped, printed |-> r.printed])]
    /\ UNCHANGED <<trialVars, parsed, request, registry, served, reactor>>

NextProfile == DoProfilingRun

SpecProfile == InitProfile /\ [][NextProfile]_vars

(***************************************************************************)
(* _parseLocalVariables on its own: one line, as its author wrote it, is   *)
(* handed to the function once.                                            *)
(***************************************************************************)
InitParse ==
    /\ TrialIdle
    /\ parsed \in [line : LongLines \cup ShortLines, out : {None}]
    /\ prof = <<>>
    /\ request = <<>>
    /\ registry = <<>>
    /\ served = <<>>
    /\ reactor = <<>>

\* _parseLocalVariables(line), lines 29-51
ParseLocalVariables ==
    /\ parsed.out = None
    /\ parsed' = [parsed EXCEPT
                    !.out = Some(_parseLocalVariables(Text(parsed.line)))]
    /\ UNCHANGED <<trialVars, prof, request, registry, served, reactor>>

NextParse == ParseLocalVariables

SpecParse == InitParse /\ [][NextParse]_vars

(***************************************************************************)
(* twisted.web.script.PythonScript.  A script file is the sequence of the  *)
(* statements it executes: request.write(chunk) or raise exc.              *)
(***************************************************************************)
Exceptions == {"Exception", "FileNotFoundError", "SystemExit", "KeyboardInterrupt"}

Stmts ==
    [op : {"write"}, arg : {"a", "b"}] \cup [op : {"raise"}, arg : Exceptions]

\* the file PythonScript is initialized with: there or not
Scripts ==
    [exists : {TRUE}, body : SeqsUpTo(Stmts, MaxStmts)]
      \cup [exists : {FALSE}, body : {<<>>}]

NOT_DONE_YET == "NOT_DONE_YET"

\* execfile(self.filename, namespace, namespace), line 191: opening a
\* missing file raises FileNotFoundError; otherwise the statements run in
\* order up to the first that raises
RECURSIVE execfile(_, _, _)
execfile(exists_, body, written) ==
    IF ~exists_ THEN [written |-> written, exc |-> Some("FileNotFoundError")]
    ELSE IF body = <<>> THEN [written |-> written, exc |-> None]
    ELSE IF Head(body).op = "raise"
    THEN [written |-> written, exc |-> Some(Head(body).arg)]
    ELSE execfile(exists_, Tail(body), Append(written, <<Head(body).arg>>))

\* util._PRE(io.getvalue()) after traceback.print_exc, lines 195-198
tracebackOutput(exc) == <<"<pre>", "Traceback", exc, "</pre>">>

\* pages.notFound("File not found.").render(request): the response code
\* becomes NOT FOUND and the body of the page is returned
notFoundRender(req) ==
    [req EXCEPT !.code = 404, !.ret = Some("File not found.")]

\* PythonScript.render(request), lines 174-202
render(req) ==
    LET hdr == [req EXCEPT !.headers = Append(@, "x-powered-by")]
        r == execfile(req.script.exists, req.script.body, req.written)
        ran == [hdr EXCEPT !.written = r.written]
    IN  IF r.exc = Some("FileNotFoundError")
        THEN notFoundRender(ran)
        ELSE IF r.exc # None
        THEN [ran EXCEPT !.written = Append(@, tracebackOutput(Val(r.exc))),
                         !.finished = @ + 1,
                         !.ret = Some(NOT_DONE_YET)]
        ELSE [ran EXCEPT !.finished = @ + 1, !.ret = Some(NOT_DONE_YET)]

\* a DummyRequest and a PythonScript for one file
InitRender ==
    /\ TrialIdle
    /\ request \in [script : Scripts, headers : {<<>>}, written : {<<>>},
                    finished : {0}, code : {200}, ret : {None}]
    /\ prof = <<>>
    /\ parsed = <<>>
    /\ registry = <<>>
    /\ served = <<>>
    /\ reactor = <<>>

Render ==
    /\ request.ret = None
    /\ request' = render(request)
    /\ UNCHANGED <<trialVars, prof, parsed, registry, served, reactor>>

NextRender == Render

SpecRender == InitRender /\ [][NextRender]_vars

(***************************************************************************)
(* twisted.web.script.ResourceScript and CacheScanner.  A .rpy script is   *)
(* the sequence of the statements it executes: cache(), recache(),         *)
(* resource = r, or raise.                                                 *)
(***************************************************************************)
noRsrc == "noRsrc"

Resources == {"R1", "R2"}

Paths == {"a.rpy", "b.rpy"}

RpyStmts ==
    [op : {"cache", "recache", "raise"}, arg : {noRsrc}]
      \cup [op : {"assign"}, arg : Resources \cup {noRsrc}]

RpyScripts == SeqsUpTo(RpyStmts, MaxScript)

\* static.Registry.getCachedPath(path): the cached resource or None
getCachedPath(reg, path) == reg[path]

\* static.Registry.cachePath(path, rsrc)
cachePath(reg, path, rsrc) == [reg EXCEPT ![path] = Some(rsrc)]

\* execfile(path, glob, glob), line 73, with CacheScanner.cache and
\* CacheScanner.recache (lines 47-54) bound to cache and recache; st holds
\* cs.doCache, glob["resource"], the number of statements executed and
\* the exception that ended the script
RECURSIVE execRpy(_, _, _, _)
execRpy(body, path, reg, st) ==
    IF body = <<>> THEN st
    ELSE LET stmt == Head(body)
             ran == [st EXCEPT !.ran = @ + 1]
         IN  CASE stmt.op = "cache" ->
                    IF getCachedPath(reg, path) # None
                    THEN [ran EXCEPT !.exc = "AlreadyCached",
                                     !.args = getCachedPath(reg, path)]
                    ELSE execRpy(Tail(body), path, reg,
                                 [ran EXCEPT !.doCache = 1])
               [] stmt.op = "recache" ->
                    execRpy(Tail(body), path, reg, [ran EXCEPT !.doCache = 1])
               [] stmt.op = "assign" ->
                    execRpy(Tail(body), path, reg,
                            [ran EXCEPT !.resource = stmt.arg])
               [] stmt.op = "raise" -> [ran EXCEPT !.exc = "Exception"]

\* ResourceScript caching whatever the resource global holds
ResourceScriptCachesPlaceholder(path, reg, body) ==
    LET st == execRpy(body, path, reg,
                      [doCache |-> 0, resource |-> noRsrc, ran |-> 0,
                       exc |-> "none", args |-> None])
    IN  IF st.exc = "AlreadyCached"
        THEN [ret |-> st.args, raised |-> FALSE, registry |-> reg,
              ran |-> st.ran]
        ELSE IF st.exc # "none"
        THEN [ret |-> None, raised |-> TRUE, registry |-> reg, ran |-> st.ran]
        ELSE [ret |-> Some(st.resource), raised |-> FALSE,
              registry |-> IF st.doCache = 1
                           THEN cachePath(reg, path, st.resource)
                           ELSE reg,
              ran |-> st.ran]

\* ResourceScript(path, registry), lines 57-78
ResourceScript(path, reg, body) ==
    LET st == execRpy(body, path, reg,
                      [doCache |-> 0, resource |-> noRsrc, ran |-> 0,
                       exc |-> "none", args |-> None])
    IN  IF st.exc = "AlreadyCached"
        THEN [ret |-> st.args, raised |-> FALSE, registry |-> reg,
              ran |-> st.ran]
        ELSE IF st.exc # "none"
        THEN [ret |-> None, raised |-> TRUE, registry |-> reg, ran |-> st.ran]
        ELSE [ret |-> Some(st.resource), raised |-> FALSE,
              registry |-> IF st.doCache = 1 /\ st.resource # noRsrc
                           THEN cachePath(reg, path, st.resource)
                           ELSE reg,
              ran |-> st.ran]

\* an empty registry, no script served yet
InitScript ==
    /\ TrialIdle
    /\ registry = [p \in Paths |-> None]
    /\ served = None
    /\ prof = <<>>
    /\ parsed = <<>>
    /\ request = <<>>
    /\ reactor = <<>>

\* one call of ResourceScript(path, registry); served keeps the call, the
\* registry before it and what the caller got
ServeScript ==
    /\ \E path \in Paths, body \in RpyScripts :
         LET r == ResourceScript(path, registry, body)
         IN  /\ registry' = r.registry
             /\ served' = Some([path |-> path, body |-> body,
                                before |-> registry, ret |-> r.ret,
                                raised |-> r.raised, ran |-> r.ran])
    /\ UNCHANGED <<trialVars, prof, parsed, request, reactor>>

NextScript == ServeScript

SpecScript == InitScript /\ [][NextScript]_vars

(***************************************************************************)
(* sandbox/moshez/application/app.py, startApplication.  The reactor keeps *)
(* the services started, the shutdown triggers registered, and, once it    *)
(* has shut down, the services stopped and the applications saved.         *)
(***************************************************************************)
Applications == {"A1", "A2", "A3"}

\* the names bound at module level when startApplication runs: the imports
\* of lines 15-19 and the module's own definitions
ModuleGlobals ==
    {"runtime", "log", "usage", "reflect", "failure", "util", "logfile",
     "sob", "compat", "service", "copyright", "sys", "os", "pdb", "profile",
     "getpass", "traceback", "signal", "reactorTypes", "startApplication"}

\* reactor.addSystemEventTrigger(phase, 'shutdown', f) for f a method of
\* the service or persistable of an application
addSystemEventTrigger(r, phase, f, application) ==
    [r EXCEPT !.triggers =
       Append(@, [phase |-> phase, f |-> f, of |-> application])]

\* startApplication(application, save), lines 215-222: line 219 reads the
\* global name app, and a name that is not bound raises NameError
startApplication(r, application, save) ==
    LET started == [r EXCEPT !.started = Append(@, application)]
        saving == addSystemEventTrigger(started, "after", "save", application)
    IN  IF save /\ "app" \notin ModuleGlobals
        THEN [raised |-> TRUE, reactor |-> started]
        ELSE [raised |-> FALSE,
              reactor |-> addSystemEventTrigger(
                            IF save THEN saving ELSE started,
                            "before", "stopService", application)]

\* a running reactor, nothing started
InitApp ==
    /\ TrialIdle
    /\ reactor = [phase |-> "running", started |-> <<>>, triggers |-> <<>>,
                  log |-> <<>>, stopped |-> {}, saved |-> {}]
    /\ prof = <<>>
    /\ parsed = <<>>
    /\ request = <<>>
    /\ registry = <<>>
    /\ served = <<>>

\* one call of startApplication; the log keeps the call and whether it
\* raised
StartApplication ==
    /\ reactor.phase = "running"
    /\ Len(reactor.log) < MaxStarts
    /\ \E application \in Applications, save \in BOOLEAN :
         LET r == startApplication(reactor, application, save)
         IN  reactor' = [r.reactor EXCEPT !.log =
                           Append(@, [application |-> application,
                                      save |-> save, raised |-> r.raised])]
    /\ UNCHANGED <<trialVars, prof, parsed, request, registry, served>>

\* reactor shutdown: the 'before' triggers are called, then the 'after'
\* triggers
Shutdown ==
    /\ reactor.phase = "running"
    /\ reactor' =
         [reactor EXCEPT
            !.phase = "shutdown",
            !.stopped = {reactor.triggers[i].of :
                           i \in {j \in 1..Len(reactor.triggers) :
                                    /\ reactor.triggers[j].phase = "before"
                                    /\ reactor.triggers[j].f = "stopService"}},
            !.saved = {reactor.triggers[i].of :
                         i \in {j \in 1..Len(reactor.triggers) :
                                  /\ reactor.triggers[j].phase = "after"
                                  /\ reactor.triggers[j].f = "save"}}]
    /\ UNCHANGED <<trialVars, prof, parsed, request, registry, served>>

NextApp == StartApplication \/ Shutdown

SpecApp == InitApp /\ [][NextApp]_vars

(***************************************************************************)
(* Properties                                                              *)
(***************************************************************************)
\* positions of the events of one kind, and the pass an event belongs to
EventsOf(kind) == {i \in 1..Len(events) : events[i].ev = kind}

PassOf(i) == Cardinality({j \in 1..i : events[j].ev = "f"})

Returned == pc \in {"return", "exit"} /\ results # <<>>

\* C1: callUntilFailure stops at the first failing pass: while it loops
\* every earlier result was successful, and when it has returned after n
\* invocations of f the n-th result is the first unsuccessful one and is the
\* value returned; it never returns a successful result.
C1_StopsAtFirstFailure ==
    config.until_failure =>
      /\ calls \in {Len(results), Len(results) + 1}
      /\ \A i \in 1..(Len(results) - 1) : wasSuccessful(results[i])
      /\ pc = "do_a_run" => \A i \in 1..Len(results) : wasSuccessful(results[i])
      /\ Returned =>
           /\ calls = Len(results)
           /\ ~wasSuccessful(results[Len(results)])
           /\ returned = results[Len(results)]
           /\ returned.id = calls

C1_Witness ==
    /\ config.until_failure
    /\ pc = "exit"
    /\ calls = 3
    /\ returned = results[3]
    /\ wasSuccessful(results[1]) /\ wasSuccessful(results[2])

\* C2: in callUntilFailure the k-th invocation of f comes right after the
\* print of the value k, the printed values are 1, 2, 3, ... and there are as
\* many prints as invocations, except between a print and its invocation.
C2_CounterBeforeEachCall ==
    config.until_failure =>
      /\ \A i \in EventsOf("f") :
           /\ i > 1
           /\ events[i - 1] = Ev("print", events[i].n, <<>>)
           /\ events[i].n = PassOf(i)
      /\ \A i \in EventsOf("print") :
           events[i].n = Cardinality({j \in EventsOf("print") : j <= i})
      /\ Cardinality(EventsOf("print")) =
           IF pc = "do_a_run" THEN calls + 1 ELSE calls
      /\ Cardinality(EventsOf("f")) = calls

C2_Witness ==
    /\ config.until_failure
    /\ pc = "exit"
    /\ calls = 3
    /\ Cardinality(EventsOf("print")) = 3

\* C3: in every pass the import errors of the loader are all reported before
\* the runner starts: no reportImportError event follows the run event or a
\* unit of its pass, and once the runner has started the reports of the pass
\* are exactly the loader's import errors, in order.
RunnerEvents == EventsOf("run") \cup EventsOf("unitOk") \cup EventsOf("unitFailed")

ReportedInPass(k) ==
    LET at == {i \in EventsOf("reportImportError") : PassOf(i) = k}
    IN  [n \in 1..Cardinality(at) |->
           events[CHOOSE i \in at : Cardinality({j \in at : j <= i}) = n].s]

C3_ImportErrorsBeforeRun ==
    /\ \A i \in EventsOf("reportImportError") :
         \A j \in RunnerEvents : PassOf(i) = PassOf(j) => i < j
    /\ (\E j \in EventsOf("run") : PassOf(j) = calls) =>
         ReportedInPass(calls) = loader.importErrors

C3_Witness ==
    /\ pc = "exit"
    /\ Len(loader.importErrors) = 1
    /\ Len(config.tests) = 2
    /\ \E i \in EventsOf("reportImportError") : \E j \in EventsOf("unitOk") :
         i < j

\* C4: in until-failure mode every pass builds its suite from the same test
\* list, recurse flag and seed, draws the same sort keys and gets the same
\* unit order.
C4_SameTestSetEveryPass ==
    config.until_failure =>
      \A i \in 1..Len(builds) :
        /\ builds[i] = builds[1]
        /\ builds[i].tests = config.tests
        /\ builds[i].seed = config.random

C4_Witness ==
    /\ config.until_failure
    /\ Len(builds) = 3
    /\ builds[3].seed # None
    /\ builds[3].suite = <<"a1", "p1", "a2">>

\* the suite a loader builds from the tests when its sorter returns the keys
RECURSIVE OrderedSuite(_, _, _)
OrderedSuite(tests, recurse, keys) ==
    IF tests = <<>> THEN <<>>
    ELSE LET units == UnitsOf(Head(tests), recurse)
             n == Len(units)
         IN  SortedBy(units, SubSeq(keys, 1, n))
               \o OrderedSuite(Tail(tests), recurse,
                               SubSeq(keys, n + 1, Len(keys)))

\* C5: the order is a function of the seed: a loader built for the seed s
\* returns, at its i-th sorter call, the i-th draw of a generator seeded with
\* s, one draw per unit, and the suite is the units ordered by these keys.
C5_OrderDeterminedBySeed ==
    \A i \in 1..Len(builds) :
      builds[i].seed # None =>
        /\ builds[i].sorter
        /\ Len(builds[i].keys) = Len(builds[i].suite)
        /\ builds[i].keys =
             Draws(SeedState(Val(builds[i].seed)), Len(builds[i].suite))
        /\ builds[i].suite =
             OrderedSuite(builds[i].tests, builds[i].recurse, builds[i].keys)

C5_Witness ==
    /\ Len(builds) = 2
    /\ builds[2].seed = Some(11)
    /\ Len(builds[2].keys) = 5
    /\ builds[2].suite # OrderedSuite(builds[2].tests, builds[2].recurse,
                                      <<0, 0, 0, 0, 0>>)

\* the text of an integer: an optional sign and at least one digit
IntegerText(o) ==
    LET ds == IF o # <<>> /\ Head(o) \in {"-", "+"} THEN Tail(o) ELSE o
    IN  ds # <<>> /\ \A i \in 1..Len(ds) : ds[i] \in Digits

NegativeText(o) ==
    /\ IntegerText(o)
    /\ Head(o) = "-"
    /\ \E i \in 2..Len(o) : o[i] # "0"

ZeroText(o) ==
    /\ IntegerText(o)
    /\ \A i \in 1..Len(o) : o[i] \in {"-", "+", "0"}

\* C6: a --random argument that is negative or not an integer ends run()
\* with a usage error before anything runs, and no generator is ever seeded
\* with a negative value.
C6_NegativeSeedRejected ==
    /\ (/\ argv.random # None
        /\ pc # "parseOptions"
        /\ NegativeText(Val(argv.random)) \/ ~IntegerText(Val(argv.random)))
       => /\ pc = "exit"
          /\ exitStatus = Some(1)
          /\ calls = 0
          /\ events = <<>>
          /\ randomer = None
    /\ \A i \in EventsOf("write") : events[i].n >= 0
    /\ \A i \in 1..Len(builds) :
         builds[i].seed # None => Val(builds[i].seed) >= 0

C6_Witness ==
    /\ argv.random = Some(<<"-", "1">>)
    /\ pc = "exit"
    /\ exitStatus = Some(1)

\* C7: with the seed 0 the seed used is derived from the clock and is
\* positive; every pass then installs the sorter, seeds the generator with
\* the derived seed and writes that seed to the reporter.
C7_ZeroSeedDerivedFromTime ==
    (/\ argv.random # None
     /\ ZeroText(Val(argv.random))
     /\ pc # "parseOptions")
    => /\ config.random # None
       /\ Val(config.random) > 0
       /\ \E now \in Clocks : Val(config.random) * 10 <= now
                              /\ now < (Val(config.random) + 1) * 10
       /\ Cardinality(EventsOf("write")) = calls
       /\ \A i \in EventsOf("write") :
            /\ events[i].n = Val(config.random)
            /\ i > 1 /\ events[i - 1].ev = "f"
       /\ \A i \in 1..Len(builds) :
            /\ builds[i].sorter
            /\ builds[i].seed = config.random
            /\ builds[i].keys =
                 Draws(SeedState(Val(config.random)), Len(builds[i].suite))

C7_Witness ==
    /\ argv.random = Some(<<"0">>)
    /\ pc = "exit"
    /\ config.random = Some(101)
    /\ Len(builds) = 1
    /\ Len(builds[1].keys) = 3
    /\ \E i \in EventsOf("write") : events[i].n = 101

\* the units of the tests in the order of the specifiers
RECURSIVE ResolvedOrder(_, _)
ResolvedOrder(tests, recurse) ==
    IF tests = <<>> THEN <<>>
    ELSE UnitsOf(Head(tests), recurse) \o ResolvedOrder(Tail(tests), recurse)

\* C8: without --random no sorter is installed, no generator is seeded, no
\* shuffle message is written and the suite holds the loaded tests in the
\* order of config['tests'].
C8_NoSeedKeepsOrder ==
    (argv.random = None /\ pc # "parseOptions") =>
      /\ config.random = None
      /\ randomer = None
      /\ ~loader.sorter
      /\ EventsOf("write") = {}
      /\ \A i \in 1..Len(builds) :
           /\ ~builds[i].sorter
           /\ builds[i].keys = <<>>
           /\ builds[i].suite = ResolvedOrder(config.tests, builds[i].recurse)

C8_Witness ==
    /\ argv.random = None
    /\ pc = "exit"
    /\ Len(builds) = 1
    /\ builds[1].suite = <<"a1", "a2", "p1", "a1", "a2">>

(***************************************************************************)
(* Properties of opt_testmodule, stated on the lines as written            *)
(***************************************************************************)
\* the file a call of opt_testmodule is about, its name not matching the
\* test-file convention
CalledOn(c) ==
    /\ c \in {Some(PlainFile), Some(PrefixOnlyFile)}
    /\ ~isTestFile(abspath(Val(c)))

ContentOf(c) == IF Val(c) = PlainFile THEN fs ELSE PrefixOnlyContent

\* a declaration: both delimiters, every item blank or one 'name: value'
WellFormed(l) ==
    /\ l.shape = "both"
    /\ \A i \in 1..Len(l.items) : l.items[i].kind \in {"blank", "pair"}

\* the line declares test-case-name as m (the last such item counts)
Declares(l, m) ==
    /\ WellFormed(l)
    /\ \E i \in 1..Len(l.items) :
         /\ l.items[i].name = <<"test-case-name">>
         /\ l.items[i].value = m
         /\ \A j \in (i + 1)..Len(l.items) :
              l.items[j].name # <<"test-case-name">>

DeclaresKey(l) == \E m \in {<<"M">>, <<"N">>} : Declares(l, m)

\* the line is not a declaration at all: no delimiter in it, or an item
\* between the delimiters that is not one 'name: value' pair
NotADeclaration(l) ==
    \/ l.shape \in {"text", "eof"}
    \/ /\ l.shape = "both"
       /\ \E i \in 1..Len(l.items) : l.items[i].kind = "bad"

\* C9 as stated: a declaration of test-case-name: m in either of the first
\* two lines puts m in the test list, whatever the other line holds.
C9_EitherLineResolves ==
    CalledOn(call) =>
      \A m \in {<<"M">>, <<"N">>} :
        (Declares(ContentOf(call)[1], m) \/ Declares(ContentOf(call)[2], m))
          => m \in Range(config.tests)

\* C9 (amended): a declaration of test-case-name: m in the first line puts m
\* in the test list; a declaration in the second line does so when the first
\* line is not a declaration at all (it has no '-*-' or an item that is not
\* one 'name: value' pair).
C9_FirstParsedLineResolves ==
    CalledOn(call) =>
      \A m \in {<<"M">>, <<"N">>} :
        (\/ Declares(ContentOf(call)[1], m)
         \/ /\ NotADeclaration(ContentOf(call)[1])
            /\ Declares(ContentOf(call)[2], m))
          => m \in Range(config.tests)

C9_Witness ==
    /\ call = Some(PlainFile)
    /\ fs[1].shape = "both"
    /\ NotADeclaration(fs[1])
    /\ Declares(fs[2], <<"M">>)
    /\ Len(fs[2].items) = 2
    /\ config.tests = <<<<"M">>>>

\* C10: a call on a file whose first two lines hold no well-formed
\* declaration with the key test-case-name leaves the test list as it was,
\* writes no error and option parsing goes on.
C10_NoDeclarationAddsNothing ==
    [][(/\ CalledOn(call')
        /\ count' = count + 1
        /\ ~DeclaresKey(ContentOf(call')[1])
        /\ ~DeclaresKey(ContentOf(call')[2]))
       => /\ config'.tests = config.tests
          /\ stderr' = stderr
          /\ pc' = "options"]_vars

C10_Witness ==
    /\ call = Some(PlainFile)
    /\ count = 1
    /\ fs[1].shape = "both"
    /\ \E i \in 1..Len(fs[1].items) : fs[1].items[i].kind = "bad"
    /\ \E i \in 1..Len(fs[1].items) : fs[1].items[i].value = <<"M">>
    /\ WellFormed(fs[2])
    /\ \E i \in 1..Len(fs[2].items) : fs[2].items[i].name = <<"coding">>
    /\ config.tests = <<>>
    /\ stderr = <<>>

(***************************************************************************)
(* Properties of the test list                                             *)
(***************************************************************************)
\* C11: config['tests'] holds each test target at most once, whatever
\* --testmodule, --extra and positional arguments were given.
C11_NoDuplicateTests ==
    \A i, j \in 1..Len(config.tests) :
      i # j => config.tests[i] # config.tests[j]

(***************************************************************************)
(* Properties of _doProfilingRun                                           *)
(***************************************************************************)
\* C12: the caller of _doProfilingRun gets what func did, the value it
\* returned or the fault it raised, and when func raised SystemExit the
\* statistics were written before SystemExit reached the caller.
C12_ProfilingTransparent ==
    \A i \in 1..Len(prof.log) :
      /\ prof.log[i].out = prof.log[i].func
      /\ prof.log[i].func.exc = "SystemExit" => prof.log[i].printed

(***************************************************************************)
(* Properties of run() with flags                                          *)
(***************************************************************************)
\* C13: once run() has exited after at least one pass, the result that
\* reallyRun returned is the result of the last pass and the exit status is
\* zero exactly when that result is successful, in single-pass and in
\* until-failure mode, with and without profiling.
C13_ExitStatusReflectsResult ==
    pc = "exit" /\ results # <<>> =>
      /\ returned = results[Len(results)]
      /\ exitStatus # None
      /\ (exitStatus = Some(0)) <=> wasSuccessful(returned)
      /\ (exitStatus = Some(0)) \/ (exitStatus = Some(1))

\* an until-failure run under the profiler ended by a failing second pass
C13_Witness ==
    /\ pc = "exit"
    /\ config.profile /\ config.until_failure
    /\ ~argv.python24
    /\ calls = 2
    /\ Len(results) = 2
    /\ wasSuccessful(results[1])
    /\ ~wasSuccessful(returned)
    /\ exitStatus = Some(1)

\* C14: when --nopm was given without --debug, run() ends with a non-zero
\* exit status as soon as the options have been parsed: reallyRun is never
\* entered, no suite is built and no pass is run.
C14_NopmWithoutDebugFailsFast ==
    argv.nopm /\ ~argv.debug /\ pc # "parseOptions" =>
      /\ pc = "exit"
      /\ exitStatus = Some(1)
      /\ calls = 0
      /\ count = 0
      /\ builds = <<>>
      /\ results = <<>>
      /\ events = <<>>

\* --nopm without --debug, tests named, and the directory had been set up
\* before the options were rejected
C14_Witness ==
    /\ argv.nopm /\ ~argv.debug
    /\ argv.args # <<>>
    /\ config.nopm
    /\ testdir.setups = 1
    /\ pc = "exit"
    /\ exitStatus = Some(1)

\* C15: after _setUpTestdir returned normally (the old directory absent,
\* removed, or renamed aside) _trial_temp is a fresh directory and the
\* current directory; after removal and rename both failed the old
\* directory is still there, the current directory is the original one and
\* run() has ended without a pass; the directory is set up at most once,
\* and every pass runs in it.
C15_TestdirSetUpOnce ==
    /\ testdir.how \in {"absent", "removed", "renamed"} =>
         /\ testdir.dir = "fresh"
         /\ testdir.cwd = "testdir"
         /\ testdir.setups = 1
         /\ testdir.aside = (IF testdir.how = "renamed" THEN 1 ELSE 0)
    /\ testdir.how = "failed" =>
         /\ testdir.dir = "old" /\ testdir.before = "old"
         /\ testdir.cwd = "origdir"
         /\ testdir.setups = 0
         /\ pc = "exit" /\ exitStatus = Some(1) /\ calls = 0
    /\ testdir.setups <= 1
    /\ calls >= 1 =>
         /\ testdir.setups = 1
         /\ testdir.dir = "fresh"
         /\ testdir.cwd = "testdir"

\* the old directory could not be removed and was renamed aside, and the
\* until-failure run made two passes in the new one
C15_Witness ==
    /\ testdir.how = "renamed"
    /\ testdir.before = "old"
    /\ testdir.aside = 1
    /\ testdir.dir = "fresh"
    /\ config.until_failure
    /\ calls = 2

(***************************************************************************)
(* Properties of _parseLocalVariables, stated on the line as written       *)
(***************************************************************************)
\* the line is in the wrong format: a delimiter is missing, or an item
\* between the delimiters is not one 'name: value' pair
WrongFormat(l) ==
    \/ l.shape \in {"text", "open", "close", "eof"}
    \/ /\ l.shape = "both"
       /\ \E i \in 1..Len(l.items) : l.items[i].kind = "bad"

\* the variables a well-formed line declares (the last item of a name
\* counts)
DeclaredVars(l) ==
    LET pairs == {i \in 1..Len(l.items) : l.items[i].kind = "pair"}
    IN  [k \in {l.items[i].name : i \in pairs} |->
           l.items[CHOOSE i \in pairs :
                     /\ l.items[i].name = k
                     /\ \A j \in pairs : l.items[j].name = k => j <= i].value]

\* C17: _parseLocalVariables raises ValueError for every line in the wrong
\* format, and for a well-formed line returns the dict of the declared
\* variables, names and values stripped.
C17_WrongFormatRaises ==
    parsed.out # None =>
      /\ WrongFormat(parsed.line) => Val(parsed.out).err
      /\ WellFormed(parsed.line) =>
           /\ ~Val(parsed.out).err
           /\ Val(parsed.out).vars = DeclaredVars(parsed.line)

(***************************************************************************)
(* Properties of PythonScript.render                                       *)
(***************************************************************************)
\* the script raises exc: its first raise statement raises exc
ScriptRaises(script, exc) ==
    /\ script.exists
    /\ \E i \in 1..Len(script.body) :
         /\ script.body[i] = [op |-> "raise", arg |-> exc]
         /\ \A j \in 1..(i - 1) : script.body[j].op # "raise"

\* C16: whatever exception the script raises, render writes its traceback
\* to the request, finishes the request exactly once and returns
\* NOT_DONE_YET.
C16_ScriptExceptionDisplayed ==
    \A exc \in Exceptions :
      request.ret # None /\ ScriptRaises(request.script, exc) =>
        /\ request.written # <<>>
        /\ request.written[Len(request.written)] = tracebackOutput(exc)
        /\ request.finished = 1
        /\ request.ret = Some(NOT_DONE_YET)

(***************************************************************************)
(* Properties of ResourceScript, stated on the script as written           *)
(***************************************************************************)
\* the script reaches a cache() call at statement i without raising before
FirstCacheAt(body, i) ==
    /\ i \in 1..Len(body)
    /\ body[i].op = "cache"
    /\ \A j \in 1..(i - 1) : body[j].op \notin {"cache", "raise"}

\* C18: the registry never holds noRsrc; a call changes the registry only
\* for its own path, only when its script called cache() or recache(), and
\* only to a resource the script assigned; a cache() call on a path the
\* registry already holds ends the script there, returns the cached
\* resource and leaves the registry as it was.
C18_ScriptCacheInvariant ==
    /\ \A q \in Paths : registry[q] # Some(noRsrc)
    /\ served # None =>
         LET c == Val(served)
         IN  /\ \A q \in Paths :
                  registry[q] # c.before[q] =>
                    /\ q = c.path
                    /\ \E i \in 1..Len(c.body) :
                         c.body[i].op \in {"cache", "recache"}
                    /\ \E i \in 1..Len(c.body) :
                         /\ c.body[i].op = "assign"
                         /\ c.body[i].arg # noRsrc
                         /\ registry[q] = Some(c.body[i].arg)
             /\ \A i \in 1..Len(c.body) :
                  FirstCacheAt(c.body, i) /\ c.before[c.path] # None =>
                    /\ ~c.raised
                    /\ c.ret = c.before[c.path]
                    /\ c.ran = i
                    /\ registry = c.before

\* a script that calls cache() and then assigns another resource, served
\* for a path the registry already holds
C18_Witness ==
    /\ served # None
    /\ Val(served).before[Val(served).path] = Some("R1")
    /\ Val(served).body =
         <<[op |-> "cache", arg |-> noRsrc], [op |-> "assign", arg |-> "R2"]>>
    /\ Val(served).ret = Some("R1")
    /\ registry[Val(served).path] = Some("R1")

(***************************************************************************)
(* Properties of startApplication                                          *)
(***************************************************************************)
\* the number of triggers registered for a method of an application
TriggersFor(phase, f, application) ==
    Cardinality({i \in 1..Len(reactor.triggers) :
                   reactor.triggers[i] =
                     [phase |-> phase, f |-> f, of |-> application]})

\* the number of startApplication calls for an application, with save set
\* or with either value
CallsFor(application, saves) ==
    Cardinality({i \in 1..Len(reactor.log) :
                   /\ reactor.log[i].application = application
                   /\ reactor.log[i].save \in saves})

\* C19: every call of startApplication starts the service and registers
\* its stopService 'before' shutdown, whatever save is, and registers the
\* save 'after' shutdown exactly when save is true; so at shutdown every
\* started service is stopped.
C19_StopTriggerAlwaysRegistered ==
    /\ \A i \in 1..Len(reactor.log) : ~reactor.log[i].raised
    /\ Len(reactor.started) = Len(reactor.log)
    /\ \A a \in Applications :
         /\ TriggersFor("before", "stopService", a) = CallsFor(a, BOOLEAN)
         /\ TriggersFor("after", "save", a) = CallsFor(a, {TRUE})
    /\ reactor.phase = "shutdown" =>
         \A i \in 1..Len(reactor.started) :
           reactor.started[i] \in reactor.stopped

====
